---- MODULE Spec2Model ----
(***************************************************************************)
(* OptimadeQueryFilterWidget (aiidalab_optimade/query_filter.py): the      *)
(* paginated query controller.  A command (retrieve_data = submitQuery,    *)
(* _get_more_results = advancePage) runs in two steps: up to the point     *)
(* where its HTTP request has been sent, and from the arrival of the       *)
(* response to the end of its finally block.  Strings that the code        *)
(* concatenates are sequences of tokens.                                   *)
(***************************************************************************)
EXTENDS Integers, Sequences, FiniteSets, TLC

VARIABLES
    debug,      \* self.debug (strict mode), fixed at construction
    base_url,   \* self.database[1]["base_url"], NoUrl when no database is chosen
    offset,     \* self.offset
    ui,         \* query_button fields and the frozen flags of the sub-widgets
    message,    \* self.error_or_status_messages.value
    options,    \* the entries of self.structure_drop
    chooser,    \* self.structure_page_chooser: next link and number of results
    calls,      \* the commands whose request is in flight
    done,       \* the command that has just completed, NoDone otherwise
    trial       \* what two runs of reset() then retrieve_data() have produced

vars ==
    <<debug, base_url, offset, ui, message, options, chooser, calls, done, trial>>

----------------------------------------------------------------------------
(* Bounds *)

MaxPage == 2        \* page offsets are 0, PageLimit, .., MaxPage * PageLimit
MaxCalls == 2       \* commands that may overlap when handlers are called directly

(* Program constants *)

PageLimit == 10

NoUrl == "no base_url"
NoLink == "no link"
NoCount == -1
Null == "null"
NoVersion == <<>>

DbUrl == "https://db/optimade"

add_to_filter == "NOT structure_features HAS ANY \"disorder\",\"unknown_positions\""

MsgDecode == "Unable to decode response"
MsgTransport == "Connection error or timeout"
MsgApi == "Error during querying"

----------------------------------------------------------------------------
(* Inputs *)

Offsets == {i * PageLimit : i \in 0..MaxPage}

\* what the user typed in the filter inputs
Fragments == {<<>>, <<" ">>, <<"X">>}

R1 == [id |-> "1", chemical_formula_descriptive |-> "SiO2",
       chemical_formula_reduced |-> "O2Si", chemical_formula_anonymous |-> "A2B",
       chemical_formula_hill |-> Null]

R2 == [id |-> "2", chemical_formula_descriptive |-> Null,
       chemical_formula_reduced |-> Null, chemical_formula_anonymous |-> "AB",
       chemical_formula_hill |-> "AlSi"]

RBad == [id |-> "3", chemical_formula_descriptive |-> Null,
         chemical_formula_reduced |-> Null, chemical_formula_anonymous |-> Null,
         chemical_formula_hill |-> Null]

Version100 == <<1, 0, 0>>
Version120 == <<1, 2, 0>>
Version0101 == <<0, 10, 1>>

NextPage == "https://db/optimade/structures?page=2"

Links == {NextPage}

\* A decoded JSON body.  errors: "absent" or "list" (a non-empty list of
\* errors); has_data: whether the "data" key is present.
Body(errors, has_data, data, api_version, data_returned, next) ==
    [errors |-> errors, has_data |-> has_data, data |-> data,
     api_version |-> api_version, data_returned |-> data_returned, next |-> next]

NoBody == Body("absent", FALSE, <<>>, NoVersion, NoCount, NoLink)

Bodies ==
    {Body("list", FALSE, <<>>, Version100, NoCount, NoLink),
     Body("list", TRUE, <<R1>>, Version100, 2, NextPage),
     Body("list", TRUE, <<R2, R1>>, Version0101, 2, NoLink),
     Body("absent", FALSE, <<>>, Version100, NoCount, NoLink),
     Body("absent", TRUE, <<>>, Version100, 0, NoLink),
     Body("absent", TRUE, <<R1>>, Version100, 2, NoLink),
     Body("absent", TRUE, <<R1>>, Version120, 2, NextPage),
     Body("absent", TRUE, <<R1>>, Version0101, 2, NoLink),
     Body("absent", TRUE, <<R1>>, NoVersion, NoCount, NextPage),
     Body("absent", TRUE, <<R2, R1>>, Version100, 2, NextPage),
     Body("absent", TRUE, <<R1, RBad>>, Version100, 2, NoLink)}

\* What the network gives back for one GET: a transport failure, a body that
\* is not JSON, or a JSON body.
NetResults ==
    {[kind |-> "transport", body |-> NoBody], [kind |-> "notjson", body |-> NoBody]}
    \cup {[kind |-> "json", body |-> b] : b \in Bodies}

\* change["new"] of the page chooser's page_offset (int) or page_link (str)
Changes ==
    {[isint |-> TRUE, offset |-> o, link |-> NoLink] : o \in Offsets}
    \cup {[isint |-> FALSE, offset |-> 0, link |-> l] : l \in Links}

----------------------------------------------------------------------------
(* Sub-widgets and helpers of the repository that sit outside query_filter.py *)

\* FilterInputs.collect_value: the user's fragment as typed
collect_value(fragment) == fragment

\* utils.perform_optimade_query: one GET built from the query parameters; a
\* transport failure and an undecodable body come back as markers in "errors"
perform_optimade_query(net) ==
    IF net.kind = "transport" THEN [NoBody EXCEPT !.errors = "transport"]
    ELSE IF net.kind = "notjson" THEN [NoBody EXCEPT !.errors = "emptydict"]
    ELSE net.body

\* utils.handle_errors: the message to display ("" when there is none) and
\* the outcome variant; in strict mode API-reported errors raise
handle_errors(response, strict) ==
    IF response.errors = "transport"
    THEN [exc |-> "", msg |-> MsgTransport, variant |-> "TransportError"]
    ELSE IF response.errors = "emptydict"
    THEN [exc |-> "", msg |-> MsgDecode, variant |-> "ApiError"]
    ELSE IF response.errors = "list"
    THEN IF strict
         THEN [exc |-> "StrictFault", msg |-> "", variant |-> "ApiError"]
         ELSE [exc |-> "", msg |-> MsgApi, variant |-> "ApiError"]
    ELSE [exc |-> "", msg |-> "", variant |-> "Success"]

\* utils.validate_api_version: TRUE when it raises; "" (absent) passes, and
\* so does every version of major version 1
validate_api_version(version) ==
    Len(version) > 0 /\ version[1] # 1

\* ResultsPageChooser.set_pagination_data
set_pagination_data(ch, data_returned, links_next) ==
    [ch EXCEPT !.totalCount = IF data_returned = NoCount THEN @ ELSE data_returned,
               !.nextLink = links_next]

\* The page the chooser starts from: offset 0, no link
FirstPage == [isint |-> TRUE, offset |-> 0, link |-> NoLink]

\* ResultsPageChooser: a page button caches the target it sets page_offset or
\* page_link to
page_chosen(ch, change) == [ch EXCEPT !.cache = change]

\* ResultsPageChooser.set_pagination_data(reset_cache=True): the cached page
\* target goes back to the first page; it is not part of the pagination state
chooser_reset_cache(ch) == [ch EXCEPT !.cache = FirstPage]

\* ResultsPageChooser.reset
chooser_reset(ch) ==
    [ch EXCEPT !.totalCount = NoCount, !.nextLink = NoLink, !.cache = FirstPage]

----------------------------------------------------------------------------
(* The widget *)

NoResult == [kind |-> "json", body |-> NoBody]

NoRequest == [link |-> NoLink, params |-> <<>>]

NoDone ==
    [kind |-> "none", outcome |-> "none", raised |-> "", msg |-> "",
     link |-> NoLink, fragment |-> <<>>, request |-> NoRequest, sent |-> FALSE,
     net |-> NoResult, pre |-> [offset |-> 0, nextLink |-> NoLink, totalCount |-> NoCount],
     post |-> [offset |-> 0, nextLink |-> NoLink, totalCount |-> NoCount],
     before |-> <<>>, shown |-> <<>>, cache_before |-> FirstPage,
     overlapped |-> FALSE]

\* PaginationState: the offset of the next parameterised request, the next
\* link and the total count
Pagination(off, ch) ==
    [offset |-> off, nextLink |-> ch.nextLink, totalCount |-> ch.totalCount]

freeze(u) ==
    [u EXCEPT !.disabled = TRUE, !.filters = TRUE, !.drop = TRUE, !.chooser = TRUE]

\* unfreeze leaving the page chooser frozen
unfreeze_without_chooser(u) ==
    [u EXCEPT !.disabled = FALSE, !.filters = FALSE, !.drop = FALSE]

unfreeze(u) ==
    [u EXCEPT !.disabled = FALSE, !.filters = FALSE, !.drop = FALSE, !.chooser = FALSE]

\* the finally block of both handlers
finally(u) ==
    unfreeze([u EXCEPT !.description = "Search", !.icon = "search",
                       !.tooltip = "Search"])

\* _query, lines 190-198: the filter sent with a parameterised request
filter_(fragment) ==
    LET f == collect_value(fragment)
    IN  IF f # <<>>
        THEN <<"( ">> \o f \o <<" ) AND ( ", add_to_filter, " )">>
        ELSE <<add_to_filter>>

\* _query sending the filter, limit and offset along with a direct link
_query_link_with_params(link, fragment, url, off) ==
    IF url = NoUrl
    THEN [exc |-> "KeyError", request |-> NoRequest]
    ELSE [exc |-> "",
          request |-> [link |-> link,
                       params |-> <<[base_url |-> url, filter_ |-> filter_(fragment),
                                     limit |-> PageLimit, offset |-> off]>>]]

\* _query up to the GET: the request it sends, or the exception it raises
\* before sending one (no "base_url" to read)
_query(link, fragment, url, off) ==
    IF link # NoLink
    THEN [exc |-> "", request |-> [link |-> link, params |-> <<>>]]
    ELSE IF url = NoUrl
    THEN [exc |-> "KeyError", request |-> NoRequest]
    ELSE [exc |-> "",
          request |-> [link |-> NoLink,
                       params |-> <<[base_url |-> url, filter_ |-> filter_(fragment),
                                     limit |-> PageLimit, offset |-> off]>>]]

\* _query without the except clause around the GET on a direct link
_query_response_uncaught(link, net) ==
    IF link # NoLink
    THEN IF net.kind = "transport"
         THEN [exc |-> "ConnectionError", response |-> NoBody]
         ELSE IF net.kind = "notjson"
         THEN [exc |-> "JSONDecodeError", response |-> NoBody]
         ELSE [exc |-> "", response |-> net.body]
    ELSE [exc |-> "", response |-> perform_optimade_query(net)]

\* _query from the GET on: the response it returns, or the exception it
\* raises.  On a direct link only JSONDecodeError is caught.
_query_response(link, net) ==
    IF link # NoLink
    THEN IF net.kind = "transport"
         THEN [exc |-> "ConnectionError", response |-> NoBody]
         ELSE IF net.kind = "notjson"
         THEN [exc |-> "", response |-> [NoBody EXCEPT !.errors = "emptydict"]]
         ELSE [exc |-> "", response |-> net.body]
    ELSE [exc |-> "", response |-> perform_optimade_query(net)]

\* the formula fallback trying the fields from the last attribute to the first
formula_last_first(entry) ==
    IF entry.chemical_formula_hill # Null
    THEN entry.chemical_formula_hill
    ELSE IF entry.chemical_formula_anonymous # Null
    THEN entry.chemical_formula_anonymous
    ELSE IF entry.chemical_formula_reduced # Null
    THEN entry.chemical_formula_reduced
    ELSE entry.chemical_formula_descriptive

formula(entry) ==
    IF entry.chemical_formula_descriptive # Null
    THEN entry.chemical_formula_descriptive
    ELSE IF entry.chemical_formula_reduced # Null
    THEN entry.chemical_formula_reduced
    ELSE IF entry.chemical_formula_anonymous # Null
    THEN entry.chemical_formula_anonymous
    ELSE entry.chemical_formula_hill

\* _update_structures: the new options of the dropdown, or BadResource
_update_structures(data) ==
    IF \E i \in 1..Len(data) : formula(data[i]) = Null
    THEN [exc |-> "BadResource", structures |-> <<>>]
    ELSE [exc |-> "",
          structures |-> [i \in 1..Len(data) |->
                             <<formula(data[i]), " (id=", data[i].id, ")">>]]

\* What a handler leaves behind: outcome, exception raised (if any), the
\* message shown, the dropdown's options and the page chooser.
Result(outcome, exc, msg, opts, ch) ==
    [outcome |-> outcome, raised |-> exc, message |-> msg, options |-> opts,
     chooser |-> ch]

\* retrieve_data without the return that follows the display of the message
retrieve_data_result_no_return(link, net, strict, msg, opts, ch) ==
    LET q == _query_response(link, net)
        r == q.response
        h == handle_errors(r, strict)
        u == _update_structures(r.data)
    IN  IF q.exc # "" THEN Result(q.exc, q.exc, msg, opts, ch)
        ELSE IF h.exc # "" THEN Result(h.exc, h.exc, msg, opts, ch)
        ELSE IF validate_api_version(r.api_version)
        THEN Result("VersionError", "ApiVersionError", h.msg, opts, ch)
        ELSE IF ~r.has_data THEN Result("KeyError", "KeyError", h.msg, opts, ch)
        ELSE IF u.exc # "" THEN Result(u.exc, u.exc, h.msg, opts, ch)
        ELSE Result("Success", "", IF h.msg # "" THEN h.msg ELSE msg, u.structures,
                    set_pagination_data(chooser_reset_cache(ch),
                                        IF r.data_returned = NoCount THEN 0
                                        ELSE r.data_returned,
                                        r.next))

\* retrieve_data, lines 265-282: from the response to the pagination update
retrieve_data_result(link, net, strict, msg, opts, ch) ==
    LET q == _query_response(link, net)
        r == q.response
        h == handle_errors(r, strict)
        u == _update_structures(r.data)
    IN  IF q.exc # "" THEN Result(q.exc, q.exc, msg, opts, ch)
        ELSE IF h.exc # "" THEN Result(h.exc, h.exc, msg, opts, ch)
        ELSE IF h.msg # "" THEN Result(h.variant, "", h.msg, opts, ch)
        ELSE IF validate_api_version(r.api_version)
        THEN Result("VersionError", "ApiVersionError", msg, opts, ch)
        ELSE IF ~r.has_data THEN Result("KeyError", "KeyError", msg, opts, ch)
        ELSE IF u.exc # "" THEN Result(u.exc, u.exc, msg, opts, ch)
        ELSE Result("Success", "", msg, u.structures,
                    set_pagination_data(chooser_reset_cache(ch),
                                        IF r.data_returned = NoCount THEN 0
                                        ELSE r.data_returned,
                                        r.next))

\* _get_more_results recording the page as retrieve_data records a new query
_get_more_results_result_as_new_query(link, net, strict, msg, opts, ch) ==
    LET q == _query_response(link, net)
        r == q.response
        h == handle_errors(r, strict)
        u == _update_structures(r.data)
    IN  IF q.exc # "" THEN Result(q.exc, q.exc, msg, opts, ch)
        ELSE IF h.exc # "" THEN Result(h.exc, h.exc, msg, opts, ch)
        ELSE IF h.msg # "" THEN Result(h.variant, "", h.msg, opts, ch)
        ELSE IF ~r.has_data THEN Result("KeyError", "KeyError", msg, opts, ch)
        ELSE IF u.exc # "" THEN Result(u.exc, u.exc, msg, opts, ch)
        ELSE Result("Success", "", msg, u.structures,
                    set_pagination_data(chooser_reset_cache(ch),
                                        IF r.data_returned = NoCount THEN 0
                                        ELSE r.data_returned,
                                        r.next))

\* _get_more_results, lines 136-148
_get_more_results_result(link, net, strict, msg, opts, ch) ==
    LET q == _query_response(link, net)
        r == q.response
        h == handle_errors(r, strict)
        u == _update_structures(r.data)
    IN  IF q.exc # "" THEN Result(q.exc, q.exc, msg, opts, ch)
        ELSE IF h.exc # "" THEN Result(h.exc, h.exc, msg, opts, ch)
        ELSE IF h.msg # "" THEN Result(h.variant, "", h.msg, opts, ch)
        ELSE IF ~r.has_data THEN Result("KeyError", "KeyError", msg, opts, ch)
        ELSE IF u.exc # "" THEN Result(u.exc, u.exc, msg, opts, ch)
        ELSE Result("Success", "", msg, u.structures,
                    set_pagination_data(ch, NoCount, r.next))

----------------------------------------------------------------------------
(* The handlers *)

Busy(u, text) ==
    [u EXCEPT !.description = text, !.icon = "cog", !.tooltip = "Please wait ..."]

Call(kind, link, fragment, request) ==
    [kind |-> kind, link |-> link, fragment |-> fragment, request |-> request,
     pre |-> Pagination(offset, chooser), overlapped |-> calls # <<>>]

Without(s, i) == [j \in 1..(Len(s) - 1) |-> IF j < i THEN s[j] ELSE s[j + 1]]

\* retrieve_data leaving self.offset one page further once the request is built
retrieve_data_next_offset(fragment) ==
    LET q == _query(NoLink, fragment, base_url, offset)
        u == Busy(freeze(ui), "Querying ... ")
    IN  /\ Len(calls) < MaxCalls
        /\ message' = ""
        /\ offset' = IF offset < MaxPage * PageLimit THEN offset + PageLimit ELSE 0
        /\ IF q.exc # ""
           THEN /\ ui' = finally(u)
                /\ calls' = calls
                /\ done' = [NoDone EXCEPT !.kind = "submit", !.outcome = q.exc,
                                          !.raised = q.exc, !.fragment = fragment,
                                          !.pre = Pagination(offset, chooser),
                                          !.post = Pagination(offset, chooser),
                                          !.before = options, !.shown = options,
                                          !.overlapped = calls # <<>>]
           ELSE /\ ui' = u
                /\ calls' = Append(calls, Call("submit", NoLink, fragment, q.request))
                /\ done' = NoDone
        /\ UNCHANGED <<debug, base_url, options, chooser>>

\* retrieve_data, lines 250-265: freeze, clear the message, send the request
retrieve_data(fragment) ==
    LET q == _query(NoLink, fragment, base_url, offset)
        u == Busy(freeze(ui), "Querying ... ")
    IN  /\ Len(calls) < MaxCalls
        /\ message' = ""
        /\ IF q.exc # ""
           THEN /\ ui' = finally(u)
                /\ calls' = calls
                /\ done' = [NoDone EXCEPT !.kind = "submit", !.outcome = q.exc,
                                          !.raised = q.exc, !.fragment = fragment,
                                          !.pre = Pagination(offset, chooser),
                                          !.post = Pagination(offset, chooser),
                                          !.before = options, !.shown = options,
                                          !.overlapped = calls # <<>>]
           ELSE /\ ui' = u
                /\ calls' = Append(calls, Call("submit", NoLink, fragment, q.request))
                /\ done' = NoDone
        /\ UNCHANGED <<debug, base_url, offset, options, chooser>>

\* _get_more_results, lines 120-136: take the target, freeze, send the request
_get_more_results(change, fragment) ==
    LET link == IF change.isint THEN NoLink ELSE change.link
        off == IF change.isint THEN change.offset ELSE offset
        q == _query(link, fragment, base_url, off)
        u == Busy(freeze(ui), "Updating ... ")
    IN  /\ Len(calls) < MaxCalls
        /\ offset' = off
        /\ IF q.exc # ""
           THEN /\ ui' = finally(u)
                /\ calls' = calls
                /\ done' = [NoDone EXCEPT !.kind = "advance", !.outcome = q.exc,
                                          !.raised = q.exc, !.fragment = fragment,
                                          !.link = link,
                                          !.pre = Pagination(offset, chooser),
                                          !.post = Pagination(off, chooser),
                                          !.before = options, !.shown = options,
                                          !.overlapped = calls # <<>>]
           ELSE /\ ui' = u
                /\ calls' = Append(calls, Call("advance", link, fragment, q.request))
                /\ done' = NoDone
        /\ UNCHANGED <<debug, base_url, message, options>>

\* The rest of a handler once the response of call i is in: classification,
\* update of results and pagination, and the finally block.
Return(i, net, res) ==
    /\ message' = res.message
    /\ options' = res.options
    /\ chooser' = res.chooser
    /\ ui' = finally(ui)
    /\ calls' = Without(calls, i)
    /\ done' = [kind |-> calls[i].kind, outcome |-> res.outcome, raised |-> res.raised,
                msg |-> res.message, link |-> calls[i].link,
                fragment |-> calls[i].fragment, request |-> calls[i].request,
                sent |-> TRUE, net |-> net, pre |-> calls[i].pre,
                post |-> Pagination(offset, res.chooser), before |-> options,
                shown |-> res.options, cache_before |-> chooser.cache,
                overlapped |-> calls[i].overlapped \/ Len(calls) > 1]
    /\ UNCHANGED <<debug, base_url, offset>>

\* retrieve_data, lines 265-288
retrieve_data_response(i, net) ==
    /\ calls[i].kind = "submit"
    /\ Return(i, net, retrieve_data_result(calls[i].link, net, debug, message,
                                           options, chooser))

\* _get_more_results, lines 136-154
_get_more_results_response(i, net) ==
    /\ calls[i].kind = "advance"
    /\ Return(i, net, _get_more_results_result(calls[i].link, net, debug, message,
                                               options, chooser))

\* _on_database_select, lines 95-106
_on_database_select(url) ==
    /\ base_url' = url
    /\ ui' = IF url = NoUrl
             THEN [ui EXCEPT !.disabled = TRUE,
                             !.tooltip = "Search - No database chosen",
                             !.filters = TRUE]
             ELSE [ui EXCEPT !.disabled = FALSE, !.tooltip = "Search",
                             !.filters = FALSE]
    /\ options' = <<>>
    /\ done' = NoDone
    /\ UNCHANGED <<debug, offset, message, chooser, calls>>

\* reset, lines 170-177
reset ==
    /\ ui' = [ui EXCEPT !.disabled = FALSE,
                        !.tooltip = "Search - No database chosen"]
    /\ options' = <<>>
    /\ chooser' = chooser_reset(chooser)
    /\ done' = NoDone
    /\ UNCHANGED <<debug, base_url, offset, message, calls>>

----------------------------------------------------------------------------
(* The specifications *)

\* what a run of reset() then retrieve_data() has produced
NoSeen ==
    [outcome |-> "none", raised |-> "", message |-> "", shown |-> <<>>,
     request |-> NoRequest,
     pagination |-> [offset |-> 0, nextLink |-> NoLink, totalCount |-> NoCount]]

NoTrial ==
    [phase |-> "free", fragment |-> <<>>, net |-> NoResult, first |-> NoSeen,
     second |-> NoSeen]

Init ==
    /\ debug \in BOOLEAN
    /\ base_url = NoUrl
    /\ offset = 0
    /\ ui = [disabled |-> TRUE, description |-> "Search", icon |-> "search",
             tooltip |-> "Search - No database chosen", filters |-> TRUE,
             drop |-> TRUE, chooser |-> TRUE]
    /\ message = ""
    /\ options = <<>>
    /\ chooser = [nextLink |-> NoLink, totalCount |-> NoCount, cache |-> FirstPage]
    /\ calls = <<>>
    /\ done = NoDone
    /\ trial = NoTrial

\* query_button.on_click: an enabled button is clicked
ClickSearch ==
    /\ ~ui.disabled
    /\ \E f \in Fragments : retrieve_data(f)
    /\ UNCHANGED trial

\* filters.on_submit: the filter inputs, not frozen, are submitted
SubmitFilters ==
    /\ ~ui.filters
    /\ \E f \in Fragments : retrieve_data(f)
    /\ UNCHANGED trial

\* a page button of the chooser, not frozen, sets page_offset or page_link,
\* and the observer runs
ChoosePage ==
    /\ ~ui.chooser
    /\ \E c \in Changes, f \in Fragments :
           /\ chooser' = page_chosen(chooser, c)
           /\ _get_more_results(c, f)
    /\ UNCHANGED trial

SubmitResponse ==
    /\ \E i \in 1..Len(calls), net \in NetResults : retrieve_data_response(i, net)
    /\ UNCHANGED trial

PageResponse ==
    /\ \E i \in 1..Len(calls), net \in NetResults :
           _get_more_results_response(i, net)
    /\ UNCHANGED trial

\* the embedding application sets the database trait, between commands
DatabaseSelect ==
    /\ calls = <<>>
    /\ \E url \in {NoUrl, DbUrl} : _on_database_select(url)
    /\ UNCHANGED trial

\* the embedding application calls reset(), between commands
Reset ==
    /\ calls = <<>>
    /\ reset
    /\ UNCHANGED trial

Next ==
    \/ ClickSearch
    \/ SubmitFilters
    \/ ChoosePage
    \/ SubmitResponse
    \/ PageResponse
    \/ DatabaseSelect
    \/ Reset

Spec == Init /\ [][Next]_vars

\* The handlers called while a command is in flight: retrieve_data is a
\* public method and _get_more_results runs whenever the page traits change,
\* whatever the state of the controls.
CallRetrieveData ==
    /\ calls # <<>>
    /\ retrieve_data(<<"X">>)
    /\ UNCHANGED trial

CallGetMoreResults ==
    /\ calls # <<>>
    /\ chooser' = chooser
    /\ \E c \in Changes : _get_more_results(c, <<"X">>)
    /\ UNCHANGED trial

\* the responses drawn while handlers overlap
NetDirect ==
    {[kind |-> "transport", body |-> NoBody],
     [kind |-> "json", body |-> Body("absent", TRUE, <<R1>>, Version100, 2, NextPage)]}

DirectSubmitResponse ==
    /\ \E i \in 1..Len(calls), net \in NetDirect : retrieve_data_response(i, net)
    /\ UNCHANGED trial

DirectPageResponse ==
    /\ \E i \in 1..Len(calls), net \in NetDirect :
           _get_more_results_response(i, net)
    /\ UNCHANGED trial

NextDirect ==
    \/ DatabaseSelect
    \/ ClickSearch
    \/ ChoosePage
    \/ CallRetrieveData
    \/ CallGetMoreResults
    \/ DirectSubmitResponse
    \/ DirectPageResponse

InitDirect == Init /\ ~debug

SpecDirect == InitDirect /\ [][NextDirect]_vars

\* reset() then retrieve_data(), run twice by the embedding application from
\* a state the widget has been brought to, with the same filter inputs; the
\* second request is answered as the first was.
Seen(d, msg, opts, off, ch) ==
    [outcome |-> d.outcome, raised |-> d.raised, message |-> msg, shown |-> opts,
     request |-> d.request, pagination |-> Pagination(off, ch)]

TrialFree ==
    /\ trial.phase = "free"
    /\ \/ DatabaseSelect
       \/ ClickSearch
       \/ ChoosePage
       \/ DirectSubmitResponse
       \/ DirectPageResponse

TrialReset ==
    /\ calls = <<>>
    /\ trial.phase \in {"free", "seen1"}
    /\ reset
    /\ trial' = [trial EXCEPT !.phase = IF @ = "free" THEN "reset1" ELSE "reset2"]

TrialSubmit ==
    /\ trial.phase \in {"reset1", "reset2"}
    /\ \E f \in IF trial.phase = "reset1" THEN Fragments ELSE {trial.fragment} :
           /\ retrieve_data(f)
           /\ trial' =
                  IF calls' # calls
                  THEN [trial EXCEPT !.fragment = f,
                                     !.phase = IF @ = "reset1" THEN "sent1"
                                               ELSE "sent2"]
                  ELSE IF trial.phase = "reset1"
                  THEN [trial EXCEPT !.fragment = f, !.phase = "seen1",
                                     !.first = Seen(done', message', options',
                                                    offset', chooser')]
                  ELSE [trial EXCEPT !.phase = "seen2",
                                     !.second = Seen(done', message', options',
                                                     offset', chooser')]

TrialResponse ==
    /\ trial.phase \in {"sent1", "sent2"}
    /\ \E net \in IF trial.phase = "sent1" THEN NetResults ELSE {trial.net} :
           /\ retrieve_data_response(1, net)
           /\ trial' =
                  IF trial.phase = "sent1"
                  THEN [trial EXCEPT !.net = net, !.phase = "seen1",
                                     !.first = Seen(done', message', options',
                                                    offset', chooser')]
                  ELSE [trial EXCEPT !.phase = "seen2",
                                     !.second = Seen(done', message', options',
                                                     offset', chooser')]

NextTrial ==
    \/ TrialFree
    \/ TrialReset
    \/ TrialSubmit
    \/ TrialResponse

SpecTrial == Init /\ [][NextTrial]_vars

----------------------------------------------------------------------------
(* Properties *)

Submits == {i \in 1..Len(calls) : calls[i].kind = "submit"}

ErrorOutcomes == {"ApiError", "TransportError", "VersionError"}

IsBlank(fragment) == \A i \in 1..Len(fragment) : fragment[i] = " "

\* FilterBuilder.compose of the specification
compose(fragment) ==
    IF IsBlank(fragment)
    THEN <<add_to_filter>>
    ELSE <<"( ">> \o fragment \o <<" ) AND ( ", add_to_filter, " )">>

\* C1: the request of a new query (retrieve_data) carries offset 0 and the
\* offset of the pagination state is 0 while it runs: an offset left behind by
\* an earlier page advance is never reused.
C1_NewQueryStartsAtOffsetZero ==
    \A i \in Submits :
        /\ calls[i].request.params[1].offset = 0
        /\ offset = 0

\* C2: with debug (strict mode) off, no command that sent its request ends by
\* raising: each ends in an outcome that is returned.
C2_NoUnhandledFault ==
    (~debug /\ done.sent) => done.raised = ""

\* C3: a command that ends in an error outcome leaves the pagination state
\* (offset, nextLink, totalCount) as it was when the command started.
C3_ErrorLeavesPaginationUntouched ==
    done.outcome \in ErrorOutcomes => done.post = done.pre

\* C4: while a command is in flight, a submitQuery or advancePage that is
\* invoked sends no request and changes neither the controller, nor the
\* pagination state, nor the displayed results: the only step that changes
\* anything is the completion of a command in flight.
C4_InFlightCommandRejected ==
    [][calls # <<>> =>
          /\ Len(calls') <= Len(calls)
          /\ Len(calls') = Len(calls) =>
                 UNCHANGED <<offset, chooser, options, message, ui>>]_vars

\* C5: at most one request is in flight at any time.
C5_AtMostOneRequestInFlight ==
    Len(calls) <= 1

\* C6: the filter of every parameterised request is the exclusion predicate
\* alone when the user's fragment is empty or blank, and otherwise
\* "( " + fragment + " ) AND ( " + exclusion predicate + " )".
C6_ComposedFilter ==
    \A i \in 1..Len(calls) :
        calls[i].request.params # <<>> =>
            calls[i].request.params[1].filter_ = compose(calls[i].fragment)

\* C7: a response with a non-empty errors collection and a populated data
\* array never ends in Success, for submitQuery and advancePage alike: its
\* records are not put in the result list, next link and total count are not
\* updated from it, and with strict mode off the outcome is ApiError with its
\* message shown.
C7_ErrorsTakePrecedence ==
    (/\ done.sent
     /\ done.net.kind = "json"
     /\ done.net.body.errors = "list"
     /\ done.net.body.has_data
     /\ done.net.body.data # <<>>)
    => /\ done.outcome # "Success"
       /\ done.shown = done.before
       /\ done.post.nextLink = done.pre.nextLink
       /\ done.post.totalCount = done.pre.totalCount
       /\ ~debug => (done.outcome = "ApiError" /\ done.msg = MsgApi /\ message = MsgApi)

C7_Witness ==
    /\ done.sent
    /\ done.kind = "advance"
    /\ done.net.kind = "json"
    /\ done.net.body.errors = "list"
    /\ done.net.body.data # <<>>
    /\ done.before # <<>>
    /\ done.outcome = "ApiError"

\* C8: an error-free response whose api_version is present and outside major
\* version 1 ends in VersionError, for advancePage as for submitQuery; the
\* versions 1.0.0 and 1.2.0 and an absent api_version never do.
C8_VersionGate ==
    (/\ done.sent
     /\ done.net.kind = "json"
     /\ done.net.body.errors = "absent")
    => (done.outcome = "VersionError"
            <=> (/\ done.net.body.api_version # NoVersion
                 /\ done.net.body.api_version[1] # 1))

\* C9: a response body that is not valid JSON ends in ApiError with the
\* message "Unable to decode response", never in Success and never in a
\* raise, for a parameterised request and for a GET on a direct link.
C9_UndecodableBody ==
    (done.sent /\ done.net.kind = "notjson")
    => /\ done.outcome = "ApiError"
       /\ done.msg = MsgDecode
       /\ done.raised = ""
       /\ message = MsgDecode

C9_Witness ==
    /\ done.sent
    /\ done.net.kind = "notjson"
    /\ done.link # NoLink
    /\ done.outcome = "ApiError"

\* C10: a command with a direct link sends a GET on that link and nothing
\* else; a command without one sends a request built from the base URL, the
\* composed filter, the page limit and the current offset, and no link.
C10_RequestModesExclusive ==
    \A i \in 1..Len(calls) :
        IF calls[i].link # NoLink
        THEN calls[i].request = [link |-> calls[i].link, params |-> <<>>]
        ELSE calls[i].request =
                [link |-> NoLink,
                 params |-> <<[base_url |-> base_url,
                               filter_ |-> filter_(calls[i].fragment),
                               limit |-> PageLimit, offset |-> offset]>>]

C10_Witness ==
    \E i \in 1..Len(calls) :
        /\ calls[i].link = NextPage
        /\ calls[i].request.link = NextPage
        /\ offset # 0

\* C11: a page advance that ends in Success records only the next-page link of
\* the response: the offset stays the one the page was requested with, the
\* total count and the chooser's cached page are as they were. A new query that
\* ends in Success takes the total count from the response (0 when the response
\* has none), records its next-page link and resets the chooser's cached page.
C11_AdvanceRecordsOnlyNextLink ==
    /\ (done.kind = "advance" /\ done.outcome = "Success") =>
           /\ done.post.nextLink = done.net.body.next
           /\ done.post.totalCount = done.pre.totalCount
           /\ done.post.offset = IF done.link = NoLink
                                 THEN done.request.params[1].offset
                                 ELSE done.pre.offset
           /\ chooser.cache = done.cache_before
    /\ (done.kind = "submit" /\ done.outcome = "Success") =>
           /\ done.post.nextLink = done.net.body.next
           /\ done.post.totalCount = IF done.net.body.data_returned = NoCount
                                     THEN 0
                                     ELSE done.net.body.data_returned
           /\ chooser.cache = FirstPage

\* a page advance by offset, past the first page, ends in Success on a response
\* whose data_returned and next link both differ from the recorded ones
C11_Witness ==
    /\ done.kind = "advance"
    /\ done.outcome = "Success"
    /\ done.link = NoLink
    /\ done.post.offset > 0
    /\ done.cache_before # FirstPage
    /\ done.pre.totalCount # NoCount
    /\ done.net.body.data_returned \notin {NoCount, done.pre.totalCount}
    /\ done.net.body.next # done.pre.nextLink

\* C12: a command that ends in an error outcome leaves its error message
\* displayed, and a new query started afterwards clears the displayed message
\* before its request is sent: while the query is in flight no message of an
\* earlier command is shown.
C12_ErrorDisplayedThenCleared ==
    /\ done.outcome \in ErrorOutcomes => (message # "" /\ message = done.msg)
    /\ Submits # {} => message = ""

\* C13: reset() followed by a new query, run twice with the same filter inputs
\* and the same response to the same request, gives the same request, the same
\* outcome (exception, message and displayed entries included) and the same
\* pagination state both times, from whatever state the first run starts.
C13_ResetThenQueryIdempotent ==
    trial.phase = "seen2" => trial.second = trial.first

\* both runs have ended in Success on a response that gives a next link, the
\* first one started after a page advance had moved the offset
C13_Witness ==
    /\ trial.phase = "seen2"
    /\ trial.first.outcome = "Success"
    /\ trial.first.pagination.offset > 0
    /\ trial.first.pagination.nextLink # NoLink
    /\ trial.second.shown # <<>>

\* a record none of whose display fields is set
NoDisplayField(entry) ==
    /\ entry.chemical_formula_descriptive = Null
    /\ entry.chemical_formula_reduced = Null
    /\ entry.chemical_formula_anonymous = Null
    /\ entry.chemical_formula_hill = Null

\* the records of a response that can be displayed, in the order of the response
Displayable(data) == SelectSeq(data, LAMBDA entry : ~NoDisplayField(entry))

\* an error-free JSON body with data whose version passes the gate
IsSuccessful(net) ==
    /\ net.kind = "json"
    /\ net.body.errors = "absent"
    /\ net.body.has_data
    /\ net.body.api_version \in {NoVersion, Version100, Version120}

\* C14: when a successful response holds a record with no display field, the
\* command does not end in ApiError, the other records of the response are
\* displayed, in order, and the pagination state is updated from the response.
C14_BadRecordFatalForItselfOnly ==
    (/\ done.sent
     /\ IsSuccessful(done.net)
     /\ \E i \in 1..Len(done.net.body.data) : NoDisplayField(done.net.body.data[i]))
    => /\ done.outcome # "ApiError"
       /\ Len(done.shown) = Len(Displayable(done.net.body.data))
       /\ \A i \in 1..Len(done.shown) :
              done.shown[i][3] = Displayable(done.net.body.data)[i].id
       /\ done.post.nextLink = done.net.body.next
       /\ done.kind = "submit" => done.post.totalCount = done.net.body.data_returned

\* C15: a command answered with an error-free JSON body whose version passes
\* the gate and whose data is absent or empty ends in Success with nothing
\* raised, and the list of displayed entries is empty.
C15_NoDataIsEmptySuccess ==
    (/\ done.sent
     /\ done.net.kind = "json"
     /\ done.net.body.errors = "absent"
     /\ done.net.body.api_version \in {NoVersion, Version100, Version120}
     /\ (~done.net.body.has_data \/ done.net.body.data = <<>>))
    => /\ done.outcome = "Success"
       /\ done.raised = ""
       /\ done.shown = <<>>

\* the first display field of a record that is set, in the order descriptive,
\* reduced, anonymous, hill
FirstSet(fields) ==
    LET set == SelectSeq(fields, LAMBDA f : f # Null) IN
    IF set = <<>> THEN Null ELSE Head(set)

DisplayFormula(entry) ==
    FirstSet(<<entry.chemical_formula_descriptive, entry.chemical_formula_reduced,
               entry.chemical_formula_anonymous, entry.chemical_formula_hill>>)

\* C16: after a command that ends in Success the displayed entries are those
\* of the response, in the order of the response, each under the key
\* "<formula> (id=<id>)" whose formula is the first field that is set among
\* descriptive, reduced, anonymous and hill.
C16_DisplayKeys ==
    done.outcome = "Success" =>
        /\ Len(done.shown) = Len(done.net.body.data)
        /\ \A i \in 1..Len(done.shown) :
               done.shown[i] = <<DisplayFormula(done.net.body.data[i]), " (id=",
                                 done.net.body.data[i].id, ")">>

\* two records are displayed in the order of the response; the first has only
\* its anonymous and hill formulas, the second has a descriptive one
C16_Witness ==
    /\ done.outcome = "Success"
    /\ done.net.body.data = <<R2, R1>>
    /\ done.shown = <<<<"AB", " (id=", "2", ")">>, <<"SiO2", " (id=", "1", ")">>>>

\* C17: a command that has completed, whether it ended in Success, in an error
\* outcome or by raising, has left the button, the filter inputs, the dropdown
\* and the page chooser unfrozen and the button's text, icon and tooltip back
\* at "Search"; the button shows another text only while a command is in
\* flight.
C17_CommandEndsUnfrozen ==
    /\ done.kind # "none" =>
           /\ ~ui.disabled /\ ~ui.filters /\ ~ui.drop /\ ~ui.chooser
           /\ ui.description = "Search"
           /\ ui.icon = "search"
           /\ ui.tooltip = "Search"
           /\ calls = <<>>
    /\ ui.description # "Search" => calls # <<>>

\* a command whose request was sent has ended by raising
C17_Witness ==
    /\ done.sent
    /\ done.raised # ""
    /\ ~ui.chooser
    /\ ui.description = "Search"

\* C18: in every reachable state the search button is enabled only if a
\* database with a base URL is selected, and so are the filter inputs; hence
\* no command ends in the KeyError of a request built without a base URL.
C18_EnabledOnlyWithDatabase ==
    /\ ~ui.disabled => base_url # NoUrl
    /\ ~ui.filters => base_url # NoUrl
    /\ done.kind = "submit" => done.outcome # "KeyError" \/ done.sent

\* C19: after a command that ends in Success no error message is displayed.
C19_NoMessageAfterSuccess ==
    done.outcome = "Success" => message = ""

====
